---- MODULE Spec2Model ----
(***************************************************************************)
(* Model of the Chicken Math PDF service: the Flask front end              *)
(* (src/api_server.py) and the report composer                             *)
(* (src/chicken_math_pdf_generator.py).                                    *)
(*                                                                         *)
(* Text is a sequence of character codes (ASCII), a JSON value is a tagged *)
(* record, a request body is a JSON object: a function from field names to *)
(* JSON values in which an absent key is the value Absent.  JSON numbers   *)
(* are drawn from the integers.                                            *)
(***************************************************************************)
EXTENDS Integers, Sequences, FiniteSets, TLC

(***************************************************************************)
(* Bounds of the model.                                                    *)
(***************************************************************************)
NumWorkers == 2      \* concurrent workers of SpecConc
MaxRequests == 2     \* requests the server accepts before it stops
MaxDay == 2          \* days the clock can show
MaxFlock == 2        \* flock counts range over -MaxFlock..MaxFlock
MaxQuotePages == 1   \* the longest assessment quote fills this many frames and one line more

(***************************************************************************)
(* JSON values and bodies.                                                 *)
(***************************************************************************)
Absent == [t |-> "absent", n |-> 0, s |-> <<>>]
Num(i) == [t |-> "num", n |-> i, s |-> <<>>]
Str(x) == [t |-> "str", n |-> 0, s |-> x]

RequiredFields == <<"name", "current_flock", "real_flock", "yearly_eggs",
                    "egg_revenue", "feed_cost", "net_profit", "funny_quote">>
OptionalFields == {"recommended_purchase"}
Fields == {RequiredFields[i] : i \in 1..Len(RequiredFields)} \cup OptionalFields

\* `field in data`
Has(data, field) == data[field].t # "absent"
\* data.get(field, default)
Get(data, field, default) == IF Has(data, field) THEN data[field] ELSE default

(***************************************************************************)
(* Text literals of the source.                                            *)
(***************************************************************************)
ChickenOwner == <<67, 104, 105, 99, 107, 101, 110, 32, 79, 119, 110, 101, 114>>
NoAssessment == <<78, 111, 32, 97, 115, 115, 101, 115, 115, 109, 101, 110, 116, 32,
                  112, 114, 111, 118, 105, 100, 101, 100, 46>>
DefaultPurchase == <<80, 114, 101, 109, 105, 117, 109, 32, 67, 104, 105, 99, 107, 101,
                     110, 32, 67, 97, 114, 101, 32, 80, 97, 99, 107, 97, 103, 101>>
ReportPrefix == <<67, 104, 105, 99, 107, 101, 110, 95, 77, 97, 116, 104, 95, 82, 101,
                  112, 111, 114, 116, 95>>
PdfSuffix == <<46, 112, 100, 102>>
EggsSuffix == <<32, 101, 103, 103, 115>>

(***************************************************************************)
(* Python's number formatting.                                             *)
(***************************************************************************)
RECURSIVE Digits(_)
\* decimal digits of n >= 0
Digits(n) == IF n < 10 THEN <<48 + n>> ELSE Digits(n \div 10) \o <<48 + (n % 10)>>

\* str(n) for an int
IntToStr(n) == IF n < 0 THEN <<45>> \o Digits(-n) ELSE Digits(n)

Pad3(n) == <<48 + (n \div 100), 48 + ((n \div 10) % 10), 48 + (n % 10)>>

RECURSIVE Grouped(_)
\* digits of n >= 0 in groups of three separated by ','
Grouped(n) == IF n < 1000 THEN Digits(n) ELSE Grouped(n \div 1000) \o <<44>> \o Pad3(n % 1000)

\* f"{n:,}" for an int
FormatThousands(n) == IF n < 0 THEN <<45>> \o Grouped(-n) ELSE Grouped(n)

\* f"{n:,.2f}" for an int
FormatMoney(n) == FormatThousands(n) \o <<46, 48, 48>>

\* f"{v}" / str(v) of a JSON value that is text or an int
PyStr(v) == IF v.t = "str" THEN v.s ELSE IntToStr(v.n)

\* strftime('%d'): the day of the month, two digits
DateText(d) == <<48 + (d \div 10), 48 + (d % 10)>>

\* s.replace(' ', '_')
ReplaceSpaces(s) == [i \in 1..Len(s) |-> IF s[i] = 32 THEN 95 ELSE s[i]]

\* f"Chicken_Math_Report_{name.replace(' ', '_')}.pdf"
DownloadName(name) == ReportPrefix \o ReplaceSpaces(name) \o PdfSuffix

(***************************************************************************)
(* Page geometry and styles of the composer, in tenths of a point.         *)
(***************************************************************************)
Inch == 720
PageHeight == 7920
TopMargin == 1000
BottomMargin == 720
FramePadding == 60
\* height of the one frame SimpleDocTemplate lays the story out in
FrameHeight == PageHeight - TopMargin - BottomMargin - 2 * FramePadding

TitleLeading == 220
TitleSpaceAfter == 300
SubtitleLeading == 180
SubtitleSpaceBefore == 120
SubtitleSpaceAfter == 120
BodyLeading == 120
BodySpaceBefore == 60
BodySpaceAfter == 120
StampLeading == 120
RowHeight == 180
HeaderRowHeight == 270

\* characters of 11pt body text, and of 14pt bold subtitle text, on a frame line
BodyCharsPerLine == 74
SubtitleCharsPerLine == 58
\* wrapped lines of the fixed texts
TitleLines == 2
WarningLines == 5
Title2Lines == 2
RecFixedLines == 7
CertLines == 6
FooterStampLines == 3
FactLines == <<2, 1, 1, 2, 1>>
\* characters of the labels "Prepared For: " and "Recommended Purchase: "
OwnerLabelChars == 14
PurchaseLabelChars == 22

CeilDiv(a, b) == (a + b - 1) \div b
\* lines a text of len characters wraps to
TextLines(len, perLine) == IF len = 0 THEN 1 ELSE CeilDiv(len, perLine)

Para(lines, leading, sb, sa) ==
    [k |-> "para", lines |-> lines, leading |-> leading, sb |-> sb, sa |-> sa, h |-> 0]
Block(h) == [k |-> "block", lines |-> 0, leading |-> 0, sb |-> 0, sa |-> 0, h |-> h]
PageBreak == [k |-> "break", lines |-> 0, leading |-> 0, sb |-> 0, sa |-> 0, h |-> 0]

TitlePara(lines) == Para(lines, TitleLeading, 0, TitleSpaceAfter)
SubtitlePara(lines) == Para(lines, SubtitleLeading, SubtitleSpaceBefore, SubtitleSpaceAfter)
BodyPara(lines) == Para(lines, BodyLeading, BodySpaceBefore, BodySpaceAfter)
StampPara(lines) == Para(lines, StampLeading, 0, 0)
Spacer(tenthsOfInch) == Block((tenthsOfInch * Inch) \div 10)
TableOf(rows, headerRows) == Block(headerRows * HeaderRowHeight + (rows - headerRows) * RowHeight)

\* the flowables appended before the page break
StoryPage1(ownerLen, quoteLen) ==
    << TitlePara(TitleLines), Spacer(2),
       StampPara(1), Spacer(3),
       SubtitlePara(TextLines(OwnerLabelChars + ownerLen, SubtitleCharsPerLine)), Spacer(1),
       BodyPara(1), Spacer(3),
       BodyPara(WarningLines), Spacer(3),
       SubtitlePara(1), TableOf(4, 1), Spacer(3),
       SubtitlePara(1), TableOf(5, 1), Spacer(3),
       SubtitlePara(1), BodyPara(TextLines(quoteLen, BodyCharsPerLine)) >>

\* the flowables appended after the page break
StoryPage2(purchaseLen) ==
    << TitlePara(Title2Lines), Spacer(3),
       SubtitlePara(1),
       BodyPara(RecFixedLines + TextLines(PurchaseLabelChars + purchaseLen, BodyCharsPerLine)),
       Spacer(3),
       SubtitlePara(1) >>
    \o [i \in 1..Len(FactLines) |-> BodyPara(FactLines[i])]
    \o << Spacer(4),
          SubtitlePara(1), BodyPara(CertLines), Spacer(4),
          TableOf(4, 0), Spacer(3),
          StampPara(FooterStampLines) >>

\* elements, as built by generate_chicken_math_pdf
Story(ownerLen, quoteLen, purchaseLen) ==
    StoryPage1(ownerLen, quoteLen) \o <<PageBreak>> \o StoryPage2(purchaseLen)

(***************************************************************************)
(* The paginator doc.build runs: flowables go down one frame per page; a   *)
(* flowable that does not fit starts a new page, a paragraph is split at a *)
(* line; the space before a flowable overlaps the space after the one      *)
(* above it.  st = [used, atTop, after, pages].                            *)
(***************************************************************************)
NewPage(st) == [used |-> 0, atTop |-> TRUE, after |-> 0, pages |-> st.pages + 1]

RECURSIVE PlacePara(_, _)
PlacePara(f, st) ==
    LET s == IF st.atTop \/ f.sb <= st.after THEN 0 ELSE f.sb - st.after
        avail == FrameHeight - st.used - s
        fit == IF avail > 0 THEN avail \div f.leading ELSE 0
    IN  IF f.lines <= fit
        THEN [used |-> st.used + s + f.lines * f.leading + f.sa, atTop |-> FALSE,
              after |-> f.sa, pages |-> st.pages]
        ELSE IF fit = 0
        THEN PlacePara(f, NewPage(st))
        ELSE PlacePara([f EXCEPT !.lines = f.lines - fit], NewPage(st))

PlaceBlock(f, st) ==
    IF st.atTop \/ (st.used < FrameHeight /\ st.used + f.h <= FrameHeight)
    THEN [used |-> st.used + f.h, atTop |-> FALSE, after |-> 0, pages |-> st.pages]
    ELSE [used |-> f.h, atTop |-> FALSE, after |-> 0, pages |-> st.pages + 1]

Place(f, st) ==
    CASE f.k = "para" -> PlacePara(f, st)
      [] f.k = "block" -> PlaceBlock(f, st)
      [] f.k = "break" -> NewPage(st)

RECURSIVE Layout(_, _, _)
Layout(story, i, st) ==
    IF i > Len(story) THEN st
    ELSE LET next == Place(story[i], st)
         IN  IF next.pages > 0 THEN Layout(story, i + 1, next) ELSE next

\* pages of the built document; add_page_number is drawn once on each
PageCount(story) ==
    Layout(story, 1, [used |-> 0, atTop |-> TRUE, after |-> 0, pages |-> 1]).pages

(***************************************************************************)
(* generate_chicken_math_pdf(data, output_filename).                       *)
(***************************************************************************)
\* a discrepancy that is never negative
DiscrepancyClamped(real, current) == IF real - current < 0 THEN 0 ELSE real - current

\* data.get('real_flock', 0) - data.get('current_flock', 0)
Discrepancy(real, current) == real - current

\* the fill of the economics table's last row
ProfitColor(profit) == IF profit >= 0 THEN "2ecc71" ELSE "e74c3c"

\* the exception the composer raises on data, "none" when it raises none:
\* '-' on a value that is no number, ',' or '.2f' formatting of a value that is no number,
\* then Paragraph given funny_quote as it is, which splits its text into lines and so
\* needs a text
ComposerException(data) ==
    LET cf == Get(data, "current_flock", Num(0))
        rf == Get(data, "real_flock", Num(0))
        numeric(f) == Get(data, f, Num(0)).t = "num"
    IN  IF cf.t # "num" \/ rf.t # "num" THEN "TypeError"
        ELSE IF ~numeric("yearly_eggs") \/ ~numeric("egg_revenue")
                \/ ~numeric("feed_cost") \/ ~numeric("net_profit") THEN "ValueError"
        ELSE IF Get(data, "funny_quote", Str(NoAssessment)).t # "str" THEN "AttributeError"
        ELSE "none"

\* what the document shows; day is the date datetime.now() gives.  The owner and the
\* purchase go through f-strings; the assessment is the value of funny_quote itself.
Render(data, day) ==
    LET cf == Get(data, "current_flock", Num(0))
        rf == Get(data, "real_flock", Num(0))
        owner == PyStr(Get(data, "name", Str(ChickenOwner)))
        quote == Get(data, "funny_quote", Str(NoAssessment))
        purchase == PyStr(Get(data, "recommended_purchase", Str(DefaultPurchase)))
    IN  [ owner |-> owner,
          date |-> DateText(day),
          declared |-> PyStr(cf),
          audited |-> PyStr(rf),
          discrepancy |-> IntToStr(Discrepancy(rf.n, cf.n)),
          eggs |-> FormatThousands(Get(data, "yearly_eggs", Num(0)).n) \o EggsSuffix,
          revenue |-> <<36>> \o FormatMoney(Get(data, "egg_revenue", Num(0)).n),
          feed |-> <<36>> \o FormatMoney(Get(data, "feed_cost", Num(0)).n),
          profit |-> <<36>> \o FormatMoney(Get(data, "net_profit", Num(0)).n),
          profitColor |-> ProfitColor(Get(data, "net_profit", Num(0)).n),
          assessment |-> quote,
          purchase |-> purchase,
          pages |-> PageCount(Story(Len(owner), Len(quote.s), Len(purchase))) ]

NoDoc == [ owner |-> <<>>, date |-> <<>>, declared |-> <<>>, audited |-> <<>>,
           discrepancy |-> <<>>, eggs |-> <<>>, revenue |-> <<>>, feed |-> <<>>,
           profit |-> <<>>, profitColor |-> "", assessment |-> Absent, purchase |-> <<>>,
           pages |-> 0 ]

\* the outcome of one call: the exception raised, or the document built
Compose(data, day) ==
    LET e == ComposerException(data)
    IN  IF e # "none" THEN [exc |-> e, doc |-> NoDoc]
        ELSE [exc |-> "none", doc |-> Render(data, day)]

(***************************************************************************)
(* Inputs.                                                                 *)
(***************************************************************************)
SampleName == <<74, 32, 68>>
OtherName == <<65, 108>>
NewlineName == <<74, 10, 68>>
SampleQuote == <<111, 107>>
SamplePurchase == <<75, 105, 116>>
NotANumber == <<120>>

Body(name, cf, rf, eggs, rev, feed, profit, quote, rec) ==
    [f \in Fields |->
        CASE f = "name" -> name
          [] f = "current_flock" -> cf
          [] f = "real_flock" -> rf
          [] f = "yearly_eggs" -> eggs
          [] f = "egg_revenue" -> rev
          [] f = "feed_cost" -> feed
          [] f = "net_profit" -> profit
          [] f = "funny_quote" -> quote
          [] f = "recommended_purchase" -> rec]

FlockValues == {Absent, Str(NotANumber)} \cup {Num(i) : i \in -MaxFlock..MaxFlock}

\* a text of n letters 'a'
Letters(n) == [i \in 1..n |-> 97]
LinesPerFrame == FrameHeight \div BodyLeading
LongQuotes == {Str(Letters(q * LinesPerFrame * BodyCharsPerLine + 1)) : q \in 1..MaxQuotePages}

\* the records the composer is run on: the counts vary, then the texts vary
ComposerInputs ==
    { Body(name, cf, rf, eggs, Num(1573), Num(756), profit, Str(SampleQuote), Absent) :
        name \in {Absent, Str(SampleName)}, cf \in FlockValues, rf \in FlockValues,
        eggs \in {Absent, Num(3146), Str(NotANumber)},
        profit \in {Absent, Num(817), Num(-1234567)} }
    \cup
    { Body(name, Num(6), Num(11), Num(3146), Num(1573), Num(756), Num(817), quote, rec) :
        name \in {Absent, Str(SampleName), Num(7)},
        quote \in {Absent, Str(SampleQuote), Num(7)} \cup LongQuotes,
        rec \in {Absent, Str(SamplePurchase)} }


EmptyBody == [f \in Fields |-> Absent]

\* every pattern of present and absent keys, each present key with its sample value
PresenceBodies ==
    { Body(name, cf, rf, eggs, rev, feed, profit, quote, Absent) :
        name \in {Absent, Str(SampleName)}, cf \in {Absent, Num(6)},
        rf \in {Absent, Num(11)}, eggs \in {Absent, Num(3146)},
        rev \in {Absent, Num(1573)}, feed \in {Absent, Num(756)},
        profit \in {Absent, Num(817)}, quote \in {Absent, Str(SampleQuote)} }
    \cup
    { Body(name, Num(6), rf, Num(3146), Num(1573), Num(756), profit, quote,
           Str(SamplePurchase)) :
        name \in {Absent, Str(SampleName)}, rf \in {Absent, Num(11)},
        profit \in {Absent, Num(817)}, quote \in {Absent, Str(SampleQuote)} }

\* every required key present, the values of the declared type or not
TypeBodies ==
    { Body(name, cf, Num(11), eggs, Num(1573), Num(756), profit, Str(SampleQuote), Absent) :
        name \in {Str(SampleName), Str(OtherName), Num(7)},
        cf \in {Num(6), Str(NotANumber)},
        eggs \in {Num(3146), Str(NotANumber)},
        profit \in {Num(817), Num(-5)} }
    \cup
    { Body(Str(SampleName), cf, Num(11), Num(3146), Num(1573), Num(756), Num(817),
           Num(7), Absent) : cf \in {Num(6), Str(NotANumber)} }

SampleBody ==
    Body(Str(SampleName), Num(6), Num(11), Num(3146), Num(1573), Num(756), Num(817),
         Str(SampleQuote), Absent)

\* the sample, bodies that miss a key and bodies with a value of another type
FewBodies ==
    { SampleBody,
      [SampleBody EXCEPT !["name"] = Absent],
      [SampleBody EXCEPT !["net_profit"] = Absent],
      [SampleBody EXCEPT !["funny_quote"] = Absent, !["real_flock"] = Absent],
      [SampleBody EXCEPT !["name"] = Num(7)],
      [SampleBody EXCEPT !["name"] = Str(NewlineName)],
      [SampleBody EXCEPT !["funny_quote"] = Num(7)],
      [SampleBody EXCEPT !["current_flock"] = Str(NotANumber)],
      [SampleBody EXCEPT !["egg_revenue"] = Str(NotANumber)] }

\* the bodies concurrent workers are given
ConcBodies ==
    { SampleBody,
      [SampleBody EXCEPT !["name"] = Str(OtherName)],
      [SampleBody EXCEPT !["current_flock"] = Str(NotANumber)] }

\* the bodies given to the two routes side by side: those, and bodies on which a handler
\* raises after the composer has run or while it runs
RouteBodies ==
    ConcBodies \cup
    { [SampleBody EXCEPT !["name"] = Num(7)],
      [SampleBody EXCEPT !["name"] = Str(NewlineName)],
      [SampleBody EXCEPT !["funny_quote"] = Num(7)] }

\* a request: a body request.json can read (json) and the object it holds, or one it cannot
RequestsOf(bodies) ==
    [json : {TRUE}, data : bodies] \cup {[json |-> FALSE, data |-> EmptyBody]}

Routes == {"pdf", "b64"}

(***************************************************************************)
(* The bytes of the file doc.build writes: the texts the document shows,   *)
(* the date first, one per line.                                           *)
(***************************************************************************)
PdfBytes(doc) ==
    doc.date \o <<10>> \o doc.owner \o <<10>> \o doc.declared \o <<10>> \o doc.audited
    \o <<10>> \o doc.discrepancy \o <<10>> \o doc.eggs \o <<10>> \o doc.revenue
    \o <<10>> \o doc.feed \o <<10>> \o doc.profit \o <<10>> \o doc.assessment.s
    \o <<10>> \o doc.purchase \o <<10>> \o IntToStr(doc.pages)

(***************************************************************************)
(* base64.b64encode(pdf_data).decode('utf-8')                              *)
(***************************************************************************)
B64Char(i) ==
    IF i < 26 THEN 65 + i
    ELSE IF i < 52 THEN 97 + (i - 26)
    ELSE IF i < 62 THEN 48 + (i - 52)
    ELSE IF i = 62 THEN 43 ELSE 47

RECURSIVE B64Encode(_)
B64Encode(b) ==
    IF Len(b) = 0 THEN <<>>
    ELSE IF Len(b) = 1
    THEN <<B64Char(b[1] \div 4), B64Char((b[1] % 4) * 16), 61, 61>>
    ELSE IF Len(b) = 2
    THEN <<B64Char(b[1] \div 4), B64Char((b[1] % 4) * 16 + (b[2] \div 16)),
           B64Char((b[2] % 16) * 4), 61>>
    ELSE <<B64Char(b[1] \div 4), B64Char((b[1] % 4) * 16 + (b[2] \div 16)),
           B64Char((b[2] % 16) * 4 + (b[3] \div 64)), B64Char(b[3] % 64)>>
         \o B64Encode(SubSeq(b, 4, Len(b)))

(***************************************************************************)
(* The front end.                                                          *)
(***************************************************************************)
\* a validation that reports the first absent field only
MissingFieldsFirstOnly(data) ==
    LET all == SelectSeq(RequiredFields, LAMBDA f : ~Has(data, f))
    IN  IF all = <<>> THEN <<>> ELSE <<all[1]>>

\* [field for field in required_fields if field not in data]
MissingFields(data) == SelectSeq(RequiredFields, LAMBDA f : ~Has(data, f))

\* a path generator that can repeat a path
AnyPath(used) == 1..MaxRequests

\* the temporary paths uuid4 can produce next: a path never produced before.  The
\* handlers use a path as a name only, so the first unused one stands for all of them.
Paths == 1..MaxRequests
FreshPaths(used) == {p \in Paths \ used : \A q \in Paths \ used : p <= q}

NoFile == [exists |-> FALSE, bytes |-> <<>>]
FileOf(bytes) == [exists |-> TRUE, bytes |-> bytes]

IdleReq ==
    [ route |-> "none", json |-> TRUE, data |-> EmptyBody, pc |-> "idle",
      filename |-> 0, calls |-> 0, wrote |-> FALSE, consumed |-> FALSE,
      encoded |-> <<>>, status |-> 0, missing |-> <<>>, message |-> "",
      content |-> <<>>, dlname |-> <<>>, exc |-> "none", delFailed |-> FALSE,
      faulted |-> FALSE, logged |-> {} ]

\* except Exception as e: log it, answer 500 with str(e)
ErrorResponse(r, e) ==
    [r EXCEPT !.pc = "done", !.status = 500, !.message = e, !.exc = e,
              !.content = <<>>, !.dlname = <<>>,
              !.logged = @ \cup {"Error generating PDF"}]

\* the 400 of generate_pdf
MissingResponse(r, missing) ==
    [r EXCEPT !.pc = "done", !.status = 400, !.missing = missing,
              !.message = "Missing required fields"]

\* call_on_close: cleanup runs when the response is closed, which the server does after
\* it has sent the file and also when it gives the response up before or while sending
CloseEnabled(r) == r.pc \in {"sending", "broken", "sent"}

(***************************************************************************)
(* State.                                                                  *)
(***************************************************************************)
VARIABLES
    req,    \* per worker: the request it handles and how far its handler is
    fs,     \* the temporary directory: path -> file
    used,   \* the paths uuid4 has produced
    accepted,   \* the number of requests accepted so far
    day,    \* the date the clock shows
    cin,    \* the record a standalone run of the composer is given
    cout    \* what that run produced

vars == <<req, fs, used, accepted, day, cin, cout>>

NotRun == [exc |-> "notrun", doc |-> NoDoc]

ServerInit(workers) ==
    /\ req = [w \in workers |-> IdleReq]
    /\ fs = [p \in Paths |-> NoFile]
    /\ used = {}
    /\ accepted = 0
    /\ day = 1

Init ==
    /\ ServerInit({1})
    /\ cin = EmptyBody
    /\ cout = NotRun

InitConc ==
    /\ ServerInit(1..NumWorkers)
    /\ cin = EmptyBody
    /\ cout = NotRun

\* as many workers as there are routes, so that one body can be on both at once
RouteWorkers == 1..Cardinality(Routes)

InitRoutes ==
    /\ ServerInit(RouteWorkers)
    /\ cin = EmptyBody
    /\ cout = NotRun

InitComposer ==
    /\ ServerInit({1})
    /\ cin \in ComposerInputs
    /\ cout = NotRun

\* a worker takes the next request
Receive(w, requests) ==
    /\ req[w].pc \in {"idle", "done"}
    /\ accepted < MaxRequests
    /\ accepted' = accepted + 1
    /\ \E route \in Routes, q \in requests :
         req' = [req EXCEPT ![w] = [IdleReq EXCEPT !.route = route, !.json = q.json,
                                             !.data = q.data, !.pc = "recv"]]
    /\ UNCHANGED <<fs, used, day, cin, cout>>

\* generate_pdf: request.json, the required fields, the temporary path
ValidatePdf(w) ==
    LET r == req[w] IN
    /\ r.pc = "recv" /\ r.route = "pdf"
    /\ IF ~r.json
       THEN req' = [req EXCEPT ![w] = ErrorResponse(r, "BadRequest")] /\ used' = used
       ELSE IF MissingFields(r.data) # <<>>
       THEN req' = [req EXCEPT ![w] = MissingResponse(r, MissingFields(r.data))]
            /\ used' = used
       ELSE \E p \in FreshPaths(used) :
              /\ req' = [req EXCEPT ![w] = [r EXCEPT !.pc = "named", !.filename = p]]
              /\ used' = used \cup {p}
    /\ UNCHANGED <<fs, accepted, day, cin, cout>>

\* generate_pdf_base64: request.json, the temporary path
NameBase64(w) ==
    LET r == req[w] IN
    /\ r.pc = "recv" /\ r.route = "b64"
    /\ IF ~r.json
       THEN req' = [req EXCEPT ![w] = ErrorResponse(r, "BadRequest")] /\ used' = used
       ELSE \E p \in FreshPaths(used) :
              /\ req' = [req EXCEPT ![w] = [r EXCEPT !.pc = "named", !.filename = p]]
              /\ used' = used \cup {p}
    /\ UNCHANGED <<fs, accepted, day, cin, cout>>

\* generate_chicken_math_pdf(data, filename), on either route; io is what the disk does
ComposeStep(w, env) ==
    LET r == [req[w] EXCEPT !.calls = @ + 1]
        out == Compose(r.data, day)
    IN
    /\ req[w].pc = "named"
    /\ IF out.exc # "none"
       THEN req' = [req EXCEPT ![w] = ErrorResponse(r, out.exc)] /\ fs' = fs
       ELSE \E io \in env :
              IF io = "ok"
              THEN /\ req' = [req EXCEPT ![w] = [r EXCEPT !.pc = "composed", !.wrote = TRUE]]
                   /\ fs' = [fs EXCEPT ![r.filename] = FileOf(PdfBytes(out.doc))]
              ELSE /\ req' = [req EXCEPT ![w] =
                                 [ErrorResponse(r, "OSError") EXCEPT !.faulted = TRUE]]
                   /\ \E partial \in BOOLEAN :
                        fs' = IF partial THEN [fs EXCEPT ![r.filename] = FileOf(<<>>)]
                              ELSE fs
    /\ UNCHANGED <<used, accepted, day, cin, cout>>

\* a header value must hold no carriage return and no line feed: send_file puts the
\* download name into Content-Disposition, and the header refuses such a value
HeaderSafe(text) == \A i \in 1..Len(text) : text[i] \notin {10, 13}

\* generate_pdf: send_file(...), call_on_close(cleanup), return response.  The arguments
\* are built first, then send_file stats the file, sets the headers and opens the file.
SendFile(w, env) ==
    LET r == req[w] IN
    /\ r.pc = "composed" /\ r.route = "pdf"
    /\ IF r.data["name"].t # "str"
       THEN req' = [req EXCEPT ![w] = ErrorResponse(r, "AttributeError")]
       ELSE \E io \in env :
              IF io # "ok" \/ ~fs[r.filename].exists
              THEN req' = [req EXCEPT ![w] =
                             [ErrorResponse(r, "OSError") EXCEPT !.faulted = TRUE]]
              ELSE IF ~HeaderSafe(DownloadName(r.data["name"].s))
              THEN req' = [req EXCEPT ![w] = ErrorResponse(r, "ValueError")]
              ELSE req' = [req EXCEPT ![w] =
                             [r EXCEPT !.pc = "sending", !.status = 200,
                                       !.dlname = DownloadName(r.data["name"].s)]]
    /\ UNCHANGED <<fs, used, accepted, day, cin, cout>>

\* the server reads the file the response wraps and sends its bytes to the caller, after
\* the handler has returned with status 200; a read that fails stops the send part-way,
\* outside the handler's try
Stream(w, env) ==
    LET r == req[w]
        bytes == fs[r.filename].bytes
    IN
    /\ r.pc = "sending"
    /\ \E io \in env :
         IF io = "ok"
         THEN req' = [req EXCEPT ![w] = [r EXCEPT !.pc = "sent", !.consumed = TRUE,
                                                  !.content = bytes]]
         ELSE \E k \in {0, Len(bytes) \div 2} :
                req' = [req EXCEPT ![w] = [r EXCEPT !.pc = "broken", !.faulted = TRUE,
                                                    !.content = SubSeq(bytes, 1, k)]]
    /\ UNCHANGED <<fs, used, accepted, day, cin, cout>>

\* generate_pdf.cleanup, called when the response is closed
Close(w, env) ==
    LET r == req[w] IN
    /\ r.route = "pdf" /\ r.status = 200 /\ r.pc # "done"
    /\ CloseEnabled(r)
    /\ IF ~fs[r.filename].exists
       THEN req' = [req EXCEPT ![w] = [r EXCEPT !.pc = "done"]] /\ fs' = fs
       ELSE \E io \in env :
              IF io = "ok"
              THEN /\ req' = [req EXCEPT ![w] = [r EXCEPT !.pc = "done"]]
                   /\ fs' = [fs EXCEPT ![r.filename] = NoFile]
              ELSE /\ req' = [req EXCEPT ![w] =
                                 [r EXCEPT !.pc = "done", !.delFailed = TRUE,
                                           !.logged = @ \cup {"Error cleaning up file"}]]
                   /\ fs' = fs
    /\ UNCHANGED <<used, accepted, day, cin, cout>>

\* generate_pdf_base64: open, read, b64encode
ReadEncode(w, env) ==
    LET r == req[w] IN
    /\ r.pc = "composed" /\ r.route = "b64"
    /\ \E io \in env :
         IF io = "ok" /\ fs[r.filename].exists
         THEN req' = [req EXCEPT ![w] =
                        [r EXCEPT !.pc = "read", !.consumed = TRUE,
                                  !.encoded = B64Encode(fs[r.filename].bytes)]]
         ELSE req' = [req EXCEPT ![w] =
                        [ErrorResponse(r, "OSError") EXCEPT !.faulted = TRUE]]
    /\ UNCHANGED <<fs, used, accepted, day, cin, cout>>

\* generate_pdf_base64: os.remove(filename)
Remove(w, env) ==
    LET r == req[w] IN
    /\ r.pc = "read"
    /\ \E io \in env :
         IF io = "ok" /\ fs[r.filename].exists
         THEN /\ req' = [req EXCEPT ![w] = [r EXCEPT !.pc = "removed"]]
              /\ fs' = [fs EXCEPT ![r.filename] = NoFile]
         ELSE /\ req' = [req EXCEPT ![w] =
                            [ErrorResponse(r, "OSError") EXCEPT !.delFailed = TRUE]]
              /\ fs' = fs
    /\ UNCHANGED <<used, accepted, day, cin, cout>>

\* generate_pdf_base64: return jsonify(success, pdf_base64, filename)
RespondBase64(w) ==
    LET r == req[w] IN
    /\ r.pc = "removed"
    /\ req' = [req EXCEPT ![w] =
                 IF ~Has(r.data, "name") THEN ErrorResponse(r, "KeyError")
                 ELSE IF r.data["name"].t # "str" THEN ErrorResponse(r, "AttributeError")
                 ELSE [r EXCEPT !.pc = "done", !.status = 200, !.content = r.encoded,
                                !.dlname = DownloadName(r.data["name"].s)]]
    /\ UNCHANGED <<fs, used, accepted, day, cin, cout>>

\* midnight passes
Tick ==
    /\ day < MaxDay
    /\ day' = day + 1
    /\ UNCHANGED <<req, fs, used, accepted, cin, cout>>

\* generate_chicken_math_pdf(sample_data, path), run standalone
RunComposer ==
    /\ cout = NotRun
    /\ cout' = Compose(cin, day)
    /\ UNCHANGED <<req, fs, used, accepted, day, cin>>

Healthy == {"ok"}
Faulty == {"ok", "fail"}

\* one worker, every body, a disk that works
Next ==
    \/ Receive(1, RequestsOf(PresenceBodies \cup TypeBodies))
    \/ ValidatePdf(1)
    \/ NameBase64(1)
    \/ ComposeStep(1, Healthy)
    \/ SendFile(1, Healthy)
    \/ Stream(1, Healthy)
    \/ Close(1, Healthy)
    \/ ReadEncode(1, Healthy)
    \/ Remove(1, Healthy)
    \/ RespondBase64(1)

\* one worker, a disk that can fail at every operation
NextFaulty ==
    \/ Receive(1, RequestsOf(FewBodies))
    \/ ValidatePdf(1)
    \/ NameBase64(1)
    \/ ComposeStep(1, Faulty)
    \/ SendFile(1, Faulty)
    \/ Stream(1, Faulty)
    \/ Close(1, Faulty)
    \/ ReadEncode(1, Faulty)
    \/ Remove(1, Faulty)
    \/ RespondBase64(1)

\* concurrent workers
NextConc ==
    \E w \in 1..NumWorkers :
        \/ Receive(w, [json : {TRUE}, data : ConcBodies])
        \/ ValidatePdf(w)
        \/ NameBase64(w)
        \/ ComposeStep(w, Healthy)
        \/ SendFile(w, Healthy)
        \/ Stream(w, Healthy)
        \/ Close(w, Healthy)
        \/ ReadEncode(w, Healthy)
        \/ Remove(w, Healthy)
        \/ RespondBase64(w)

\* the two routes side by side, a clock that runs
NextRoutes ==
    \/ \E w \in RouteWorkers :
         \/ Receive(w, [json : {TRUE}, data : RouteBodies])
         \/ ValidatePdf(w)
         \/ NameBase64(w)
         \/ ComposeStep(w, Healthy)
         \/ SendFile(w, Healthy)
         \/ Stream(w, Healthy)
         \/ Close(w, Healthy)
         \/ ReadEncode(w, Healthy)
         \/ Remove(w, Healthy)
         \/ RespondBase64(w)
    \/ Tick

NextComposer == RunComposer

Spec == Init /\ [][Next]_vars
SpecFaulty == Init /\ [][NextFaulty]_vars
SpecConc == InitConc /\ [][NextConc]_vars
SpecRoutes == InitRoutes /\ [][NextRoutes]_vars
SpecComposer == InitComposer /\ [][NextComposer]_vars

(***************************************************************************)
(* Properties.                                                             *)
(***************************************************************************)
RequiredSet == {RequiredFields[i] : i \in 1..Len(RequiredFields)}
AbsentRequired(data) == {f \in RequiredSet : data[f].t = "absent"}
Range(q) == {q[i] : i \in 1..Len(q)}
FileExists(r) == r.filename # 0 /\ fs[r.filename].exists

\* the integer a decimal text stands for
RECURSIVE ParseNat(_)
ParseNat(t) == IF Len(t) = 0 THEN 0 ELSE 10 * ParseNat(SubSeq(t, 1, Len(t) - 1)) + (t[Len(t)] - 48)
ParseInt(t) == IF Len(t) > 0 /\ t[1] = 45 THEN 0 - ParseNat(Tail(t)) ELSE ParseNat(t)

\* the bytes a base64 text stands for
B64Index(c) ==
    IF c >= 65 /\ c <= 90 THEN c - 65
    ELSE IF c >= 97 /\ c <= 122 THEN c - 97 + 26
    ELSE IF c >= 48 /\ c <= 57 THEN c - 48 + 52
    ELSE IF c = 43 THEN 62 ELSE 63
RECURSIVE B64Decode(_)
B64Decode(t) ==
    IF Len(t) < 4 THEN <<>>
    ELSE LET a == B64Index(t[1])
             b == B64Index(t[2])
             c == B64Index(t[3])
             d == B64Index(t[4])
             b1 == a * 4 + (b \div 16)
             b2 == (b % 16) * 16 + (c \div 4)
             b3 == (c % 4) * 64 + d
         IN  (IF t[3] = 61 THEN <<b1>> ELSE IF t[4] = 61 THEN <<b1, b2>> ELSE <<b1, b2, b3>>)
             \o B64Decode(SubSeq(t, 5, Len(t)))

\* a document's bytes without the date line
StripDate(bytes) == SubSeq(bytes, 4, Len(bytes))

\* the document the composer builds from each body of the concurrent requests, date aside
OwnDocument == [b \in ConcBodies |-> StripDate(PdfBytes(Compose(b, 1).doc))]

\* C1: a /generate-pdf request whose body lacks a required field is answered 400 with
\* exactly the absent required fields listed, and its handler never calls the composer
\* nor names a temporary file.
C1_MissingFieldsRejected ==
    \A w \in DOMAIN req :
        LET r == req[w] IN
        (r.route = "pdf" /\ r.json /\ AbsentRequired(r.data) # {}) =>
            /\ r.calls = 0 /\ r.filename = 0 /\ ~r.wrote
            /\ r.pc = "done" =>
                 /\ r.status = 400
                 /\ Range(r.missing) = AbsentRequired(r.data)
                 /\ Len(r.missing) = Cardinality(AbsentRequired(r.data))
                 /\ r.content = <<>>

C1_Witness ==
    \E w \in DOMAIN req :
        /\ req[w].pc = "done" /\ req[w].route = "pdf" /\ req[w].status = 400
        /\ Len(req[w].missing) = 2
        /\ Has(req[w].data, "name") /\ Has(req[w].data, "recommended_purchase")
        /\ \A p \in Paths : ~fs[p].exists

\* C2: /generate-pdf-base64 rejects a body that lacks a required field as /generate-pdf
\* does: 400 with the absent fields, no composer call, no temporary file.
C2_Base64ValidatesLikePdf ==
    \A w \in DOMAIN req :
        LET r == req[w] IN
        (r.route = "b64" /\ r.json /\ AbsentRequired(r.data) # {}) =>
            /\ r.calls = 0 /\ r.filename = 0
            /\ r.pc = "done" =>
                 r.status = 400 /\ Range(r.missing) = AbsentRequired(r.data)

\* C3: when a request on either route is done, whatever its status, the temporary file
\* of that request is gone unless its deletion failed.
C3_NoTempFileRemains ==
    \A w \in DOMAIN req :
        (req[w].pc = "done" /\ FileExists(req[w])) => req[w].delFailed

\* C4: the temporary file is deleted only after its bytes were consumed: on /generate-pdf
\* by the close callback after the send, on /generate-pdf-base64 after the read and before
\* the JSON answer is built.
C4_DeletedOnlyAfterConsumed ==
    \A w \in DOMAIN req :
        LET r == req[w] IN
        /\ (r.wrote /\ ~FileExists(r)) => r.consumed
        /\ (r.wrote /\ ~FileExists(r) /\ r.route = "pdf") => (r.pc = "done" /\ r.status = 200)
        /\ (r.wrote /\ ~FileExists(r) /\ r.route = "b64") => r.pc \in {"removed", "done"}
        /\ (r.route = "b64" /\ r.status = 200) => ~FileExists(r)

\* C5: an exception raised while a request is handled (the body cannot be read, the
\* composer raises, the disk fails while the document is written or read, the filename
\* cannot be built) is answered 500 with the exception's message and no document, never
\* with a success status or document content; the composer runs at most once per request.
C5_ExceptionsAnswered500 ==
    \A w \in DOMAIN req :
        LET r == req[w]
            raised == \/ r.exc # "none"
                      \/ r.faulted
                      \/ r.pc = "done" /\ ~r.json
                      \/ r.pc = "done" /\ r.calls = 1 /\ ComposerException(r.data) # "none"
                      \/ r.pc = "done" /\ r.wrote /\ r.data["name"].t # "str"
        IN
        /\ r.calls <= 1
        /\ raised =>
             /\ r.pc = "done" /\ r.status = 500 /\ r.exc # "none" /\ r.message = r.exc
             /\ r.content = <<>> /\ r.dlname = <<>>
             /\ "Error generating PDF" \in r.logged
        /\ (r.calls = 1 /\ ComposerException(r.data) # "none") =>
             r.message = ComposerException(r.data)

\* C6: when composing and reading or sending succeeded and the deletion of the temporary
\* file fails, the caller still gets the success answer, on either route.
C6_DeleteFailureNotSurfaced ==
    \A w \in DOMAIN req :
        LET r == req[w] IN
        (r.pc = "done" /\ r.delFailed /\ r.consumed) =>
            (r.status = 200 /\ r.content # <<>>)

\* C7: concurrent requests do not interfere: requests in flight have distinct temporary
\* paths, a composed file stays, with the bytes composed from its own request, until that
\* request has consumed it or has ended, and a caller who receives a document receives the
\* one composed from its own body.
C7_NoInterference ==
    \A w \in DOMAIN req :
        LET r == req[w]
            own(bytes) ==
                /\ Len(bytes) > 3
                /\ SubSeq(bytes, 1, 2) \in {DateText(d) : d \in 1..MaxDay}
                /\ StripDate(bytes) = OwnDocument[r.data]
        IN
        /\ \A v \in DOMAIN req :
             (v # w /\ r.filename # 0) => req[v].filename # r.filename
        /\ (r.wrote /\ ~r.consumed /\ r.pc # "done") =>
             (FileExists(r) /\ own(fs[r.filename].bytes))
        /\ (r.pc = "done" /\ r.status = 200 /\ r.route = "pdf" /\ r.consumed) =>
             own(r.content)
        /\ (r.pc = "done" /\ r.status = 200 /\ r.route = "b64") => own(B64Decode(r.content))

C7_Witness ==
    \E w \in DOMAIN req, v \in DOMAIN req :
        /\ w # v /\ req[w].data # req[v].data
        /\ req[w].pc = "done" /\ req[w].status = 200 /\ req[w].content # <<>>
        /\ req[v].wrote /\ ~req[v].consumed /\ req[v].pc # "done" /\ FileExists(req[v])

\* C8: on a body with every required field both routes end alike: both succeed or both
\* fail, the decoded base64 document is the one /generate-pdf streamed, when it streamed
\* it, but for the date, and both name it Chicken_Math_Report_<name>.pdf with the name's
\* spaces turned into underscores.
C8_RoutesAgree ==
    \A w \in DOMAIN req, v \in DOMAIN req :
        LET p == req[w]
            b == req[v]
            name == p.data["name"].s
        IN
        ( /\ p.pc = "done" /\ b.pc = "done" /\ p.route = "pdf" /\ b.route = "b64"
          /\ p.json /\ b.json /\ p.data = b.data /\ AbsentRequired(p.data) = {} ) =>
            /\ p.status = b.status
            /\ p.status = 200 =>
                 /\ p.consumed =>
                      /\ StripDate(B64Decode(b.content)) = StripDate(p.content)
                      /\ Len(p.content) > 3
                 /\ b.dlname = p.dlname
                 /\ Len(p.dlname) = Len(ReportPrefix) + Len(name) + Len(PdfSuffix)
                 /\ SubSeq(p.dlname, 1, Len(ReportPrefix)) = ReportPrefix
                 /\ SubSeq(p.dlname, Len(p.dlname) - 3, Len(p.dlname)) = PdfSuffix
                 /\ \A i \in 1..Len(name) :
                      p.dlname[Len(ReportPrefix) + i] = IF name[i] = 32 THEN 95 ELSE name[i]

\* C9: in a composed document the discrepancy row shows real_flock - current_flock for
\* all integers, negative and zero included, an absent key counting as 0, and the declared
\* and audited rows show current_flock and real_flock.
C9_DiscrepancyShown ==
    LET intOrAbsent(f) == cin[f].t \in {"num", "absent"}
        cf == cin["current_flock"].n
        rf == cin["real_flock"].n
    IN
    (cout # NotRun /\ intOrAbsent("current_flock") /\ intOrAbsent("real_flock")) =>
        /\ cout.exc # "TypeError"
        /\ cout.exc = "none" =>
             /\ ParseInt(cout.doc.discrepancy) = rf - cf
             /\ ParseInt(cout.doc.declared) = cf
             /\ ParseInt(cout.doc.audited) = rf
             /\ (rf - cf < 0) = (Len(cout.doc.discrepancy) > 0 /\ cout.doc.discrepancy[1] = 45)

C9_Witness ==
    /\ cout.exc = "none"
    /\ cin["current_flock"] = Num(MaxFlock) /\ cin["real_flock"].t = "absent"
    /\ cout.doc.discrepancy = <<45>> \o Digits(MaxFlock)

\* C10: the document composed from a valid request (every required field present and of
\* its declared type, the free texts of any length) has exactly two pages.
C10_ExactlyTwoPages ==
    ( /\ cout # NotRun
      /\ AbsentRequired(cin) = {}
      /\ \A f \in {"name", "funny_quote"} : cin[f].t = "str"
      /\ \A f \in RequiredSet \ {"name", "funny_quote"} : cin[f].t = "num" ) =>
        (cout.exc = "none" /\ cout.doc.pages = 2)
====
